---- MODULE Spec2Model ----
(***************************************************************************)
(* Model of the e-commerce sales analysis pipeline:                        *)
(*   src/src/data_cleaner.py   clean_sales_data                            *)
(*   src/src/analyzer.py       calculate_kpis and the analyze_* functions  *)
(*   src/src/insights_generator.py   generate_insights_report              *)
(*   src/src/main_analysis.py  main, the order of the calls                *)
(*   src/streamlit_app.py      main, one run of the dashboard script       *)
(*                                                                         *)
(* Numbers.  Total_Amount, Discount and Unit_Price are integers counting   *)
(* 1/64 of a currency unit (Dollar == 64).  Every input amount is a whole  *)
(* number of currency units, so the quartiles (interpolation weights k/4)  *)
(* and the bounds (1.5 * IQR) of two successive cleaning passes are exact  *)
(* integers here, and exact binary floating point values in the program.   *)
(* Figures rounded with .round(2) are integers counting hundredths         *)
(* (cents, or hundredths of a percent), rounded half to even as numpy      *)
(* rounds.                                                                 *)
(*                                                                         *)
(* Missing values.  A row carries the set na of its columns that hold      *)
(* NaN / NaT; such a column holds a fixed blank, so two rows are equal     *)
(* exactly when pandas' duplicated() treats them as equal (NaN matches     *)
(* NaN there).                                                             *)
(*                                                                         *)
(* Floats that are not rounded (the averages and the discount rate of      *)
(* calculate_kpis) are exact fractions in lowest terms.                    *)
(*                                                                         *)
(* Sorting.  sort_values runs numpy's default quicksort, whose order among *)
(* equal values is not specified; argsort names the quicksort of the       *)
(* build, one that keeps equal rows in place or one that does not.         *)
(***************************************************************************)
EXTENDS Integers, Sequences, FiniteSets, TLC

VARIABLES
    pc,              \* position in the pipeline
    call,            \* 1: first call of clean_sales_data, 2: call on its own result
    df,              \* the DataFrame passed to clean_sales_data (parameter df)
    df_clean,        \* the working copy (local df_clean), the return value at "returned"
    initial_missing, \* local initial_missing (line 30)
    duplicates,      \* local duplicates (line 41)
    outliers,        \* local outliers (line 56)
    bounds,          \* locals Q1, Q3, lower_bound, upper_bound (lines 50-54)
    error,           \* the exception that ended the call, "none" if none
    same_object,     \* does the name df_clean refer to the caller's object df
    argsort,         \* which quicksort the numpy build runs for sort_values
    kpis,
    category_analysis,
    region_analysis,
    time_analysis,
    top_n,
    top_products,
    demo_analysis,
    payment_analysis,
    report,          \* the text written to reports/insights_report.txt, if any
    run,             \* "pipeline": main_analysis.py, "dashboard": streamlit_app.py
    filtered_df,     \* streamlit_app.py main: the records the filters leave
    warning          \* streamlit_app.py main: has st.warning been shown

vars == <<pc, call, df, df_clean, initial_missing, duplicates, outliers, bounds,
          error, same_object, argsort, kpis, category_analysis, region_analysis,
          time_analysis, top_n, top_products, demo_analysis, payment_analysis,
          report, run, filtered_df, warning>>

\* the names of streamlit_app.py
dashboard == <<run, filtered_df, warning>>

-----------------------------------------------------------------------------
(* Bounds of the model *)

MaxRows == 3          \* longest input drawn from RowPool
MaxAmountRows == 4    \* longest input of the revenue family
MaxGroups == 6        \* longest input of the one-row-per-group family
MaxTopN == 1          \* top_n ranges over -MaxTopN .. MaxTopN and the default

-----------------------------------------------------------------------------
(* Units and arithmetic helpers *)

Dollar == 8 * 8

\* numpy's round to a multiple of 1/den: nearest integer to num/den, ties to even
RoundHalfEven(num, den) ==
    LET q == num \div den
        r == num - q * den
    IN  IF 2 * r < den THEN q
        ELSE IF 2 * r > den THEN q + 1
        ELSE IF q % 2 = 0 THEN q ELSE q + 1

\* x, an amount in 1/64 units, rounded to cents (.round(2))
Round2(x) == RoundHalfEven(x * 100, Dollar)

RECURSIVE SumSeq(_)
SumSeq(s) == IF s = <<>> THEN 0 ELSE Head(s) + SumSeq(Tail(s))

RECURSIVE Insert(_, _)
Insert(s, x) ==
    IF s = <<>> THEN <<x>>
    ELSE IF x < Head(s) THEN <<x>> \o s
    ELSE <<Head(s)>> \o Insert(Tail(s), x)

RECURSIVE SortAsc(_)
SortAsc(s) == IF s = <<>> THEN <<>> ELSE Insert(SortAsc(Tail(s)), Head(s))

\* the subsequence of s at the positions i with keep[i]
RECURSIVE KeepWhere(_, _)
KeepWhere(s, keep) ==
    IF s = <<>> THEN <<>>
    ELSE LET n == Len(s)
             front == KeepWhere(SubSeq(s, 1, n - 1), SubSeq(keep, 1, n - 1))
         IN  IF keep[n] THEN Append(front, s[n]) ELSE front

-----------------------------------------------------------------------------
(* Rows and frames *)

RawCols == {"Order_ID", "Order_Date", "Customer_ID", "Product_Name", "Category",
            "Quantity", "Unit_Price", "Total_Amount", "Discount", "Region",
            "Payment_Method", "Customer_Age_Group"}

DerivedCols == {"Year", "Month", "Month_Name", "Quarter", "Day_of_Week",
                "Revenue_After_Discount"}

NumericCols == {"Order_ID", "Quantity", "Unit_Price", "Total_Amount", "Discount",
                "Year", "Month", "Quarter", "Revenue_After_Discount"}

NaT == [text |-> 0]

\* the blank a column holds where its value is missing
Blank(col) ==
    IF col \in NumericCols THEN 0
    ELSE IF col = "Order_Date" THEN NaT
    ELSE ""

IsNull(r, col) == col \in r.na

SetNull(r, col) == [r EXCEPT ![col] = Blank(col), !.na = @ \cup {col}]

\* a raw record as the loader or a caller hands it over; date is the text
\* yyyymmdd of the Order_Date cell
Row(id, date, cust, prod, cat, qty, price, amt, disc, region, pay, age) ==
    [Order_ID |-> id, Order_Date |-> [text |-> date], Customer_ID |-> cust,
     Product_Name |-> prod, Category |-> cat, Quantity |-> qty,
     Unit_Price |-> price, Total_Amount |-> amt, Discount |-> disc,
     Region |-> region, Payment_Method |-> pay, Customer_Age_Group |-> age,
     Year |-> 0, Month |-> 0, Month_Name |-> "", Quarter |-> 0,
     Day_of_Week |-> "", Revenue_After_Discount |-> 0,
     na |-> {}]

Frame(columns, rows) == [columns |-> columns, rows |-> rows]

NoFrame == Frame({}, <<>>)

-----------------------------------------------------------------------------
(* Dates: pd.to_datetime and the .dt accessors *)

IsTimestamp(v) == DOMAIN v = {"year", "month", "day"}

IsLeap(y) == (y % 4 = 0 /\ y % 100 # 0) \/ y % 400 = 0

DaysInMonth(y, m) ==
    IF m = 2 THEN (IF IsLeap(y) THEN 28 + 1 ELSE 28)
    ELSE IF m \in {4, 6, 9, 11} THEN 30
    ELSE 31

\* the calendar date the text yyyymmdd denotes
ParseDate(d) == [year |-> d \div 10000, month |-> (d \div 100) % 100, day |-> d % 100]

ValidDate(t) ==
    /\ t.year >= 1
    /\ t.month \in 1..12
    /\ t.day >= 1 /\ t.day <= DaysInMonth(t.year, t.month)

\* can pd.to_datetime convert the cell (NaT and Timestamps pass through)
Parseable(r) ==
    \/ IsNull(r, "Order_Date")
    \/ IsTimestamp(r.Order_Date)
    \/ ValidDate(ParseDate(r.Order_Date.text))

to_datetime(r) ==
    IF IsNull(r, "Order_Date") \/ IsTimestamp(r.Order_Date) THEN r
    ELSE [r EXCEPT !.Order_Date = ParseDate(r.Order_Date.text)]

MonthNames == <<"January", "February", "March", "April", "May", "June", "July",
                "August", "September", "October", "November", "December">>

DayNames == <<"Monday", "Tuesday", "Wednesday", "Thursday", "Friday", "Saturday",
              "Sunday">>

\* days from 0001-01-01 (a Monday) to the date
DaysBefore(t) ==
    LET y == t.year - 1
        before == [m \in 1..12 |->
                     Cardinality({k \in 1..(m - 1) : DaysInMonth(t.year, k) = 31}) * 31
                     + Cardinality({k \in 1..(m - 1) : DaysInMonth(t.year, k) = 30}) * 30
                     + (IF m > 2 THEN DaysInMonth(t.year, 2) ELSE 0)]
    IN  y * 365 + (y \div 4) - (y \div 100) + (y \div 400) + before[t.month] + t.day - 1

day_name(t) == DayNames[(DaysBefore(t) % 7) + 1]

quarter(t) == ((t.month - 1) \div 3) + 1

-----------------------------------------------------------------------------
(* clean_sales_data, step by step *)

\* variant of copy: df_clean = df, the name is bound to the caller's object
assign(frame) == [frame |-> frame, same_object |-> TRUE]

\* line 22, df.copy(): a new object with the same content
copy(frame) == [frame |-> frame, same_object |-> FALSE]

\* df.isnull().sum().sum()
isnull_sum(frame) ==
    SumSeq([i \in 1..Len(frame.rows) |->
              Cardinality(frame.rows[i].na \cap frame.columns)])

\* variant of fillna: the value is assigned to the whole column
fillna_all(r, value) ==
    [r EXCEPT !.Customer_Age_Group = value, !.na = @ \ {"Customer_Age_Group"}]

\* Series.fillna on one cell of column Customer_Age_Group
fillna(r, value) ==
    IF IsNull(r, "Customer_Age_Group")
    THEN [r EXCEPT !.Customer_Age_Group = value,
                   !.na = @ \ {"Customer_Age_Group"}]
    ELSE r

\* df.duplicated(): TRUE at i when an earlier row equals row i in every column
duplicated(rows) ==
    [i \in 1..Len(rows) |-> \E j \in 1..(i - 1) : rows[j] = rows[i]]

\* variant of drop_duplicates: keep='last'
drop_duplicates_last(rows) ==
    KeepWhere(rows, [i \in 1..Len(rows) |->
                       ~\E j \in (i + 1)..Len(rows) : rows[j] = rows[i]])

\* df.drop_duplicates(): the first occurrence of every row, in order
drop_duplicates(rows) ==
    KeepWhere(rows, [i \in 1..Len(rows) |-> ~duplicated(rows)[i]])

\* the values of Total_Amount that are present, in row order
Amounts(rows) ==
    LET present == KeepWhere(rows, [i \in 1..Len(rows) |->
                                      ~IsNull(rows[i], "Total_Amount")])
    IN  [i \in 1..Len(present) |-> present[i].Total_Amount]

\* variant of quantile: interpolation='lower', the order statistic at or below
\* the position
quantile_lower(vals, q4) == SortAsc(vals)[(((Len(vals) - 1) * q4) \div 4) + 1]

\* Series.quantile(q4 / 4) of a non-empty list: linear interpolation between
\* the two order statistics around position (n - 1) * q
quantile(vals, q4) ==
    LET s == SortAsc(vals)
        pos4 == (Len(s) - 1) * q4
        lo == (pos4 \div 4) + 1
        w == pos4 % 4
    IN  IF w = 0 THEN s[lo] ELSE s[lo] + (((s[lo + 1] - s[lo]) * w) \div 4)

\* variant of iqr_bounds: the lower bound is taken above Q1
iqr_bounds_sign(rows) ==
    LET vals == Amounts(rows)
    IN  IF vals = <<>>
        THEN [nan |-> TRUE, Q1 |-> 0, Q3 |-> 0, lower |-> 0, upper |-> 0]
        ELSE LET Q1 == quantile(vals, 1)
                 Q3 == quantile(vals, 3)
                 IQR == Q3 - Q1
             IN  [nan |-> FALSE, Q1 |-> Q1, Q3 |-> Q3,
                  lower |-> Q1 + ((3 * IQR) \div 2),
                  upper |-> Q3 + ((3 * IQR) \div 2)]

\* Q1, Q3, IQR and the two bounds (lines 50-54); all NaN when no amount is present
iqr_bounds(rows) ==
    LET vals == Amounts(rows)
    IN  IF vals = <<>>
        THEN [nan |-> TRUE, Q1 |-> 0, Q3 |-> 0, lower |-> 0, upper |-> 0]
        ELSE LET Q1 == quantile(vals, 1)
                 Q3 == quantile(vals, 3)
                 IQR == Q3 - Q1
             IN  [nan |-> FALSE, Q1 |-> Q1, Q3 |-> Q3,
                  lower |-> Q1 - ((3 * IQR) \div 2),
                  upper |-> Q3 + ((3 * IQR) \div 2)]

\* the two comparisons of lines 56-57: NaN compares FALSE with everything
BelowLower(r, b) ==
    ~b.nan /\ ~IsNull(r, "Total_Amount") /\ r.Total_Amount < b.lower
AboveUpper(r, b) ==
    ~b.nan /\ ~IsNull(r, "Total_Amount") /\ r.Total_Amount > b.upper

count_outliers(rows, b) ==
    Cardinality({i \in 1..Len(rows) : BelowLower(rows[i], b) \/ AboveUpper(rows[i], b)})

\* variant of cap: amounts above the upper bound are set to Q3
cap_to_quartile(r, b) ==
    LET r1 == IF BelowLower(r, b) THEN [r EXCEPT !.Total_Amount = b.lower] ELSE r
    IN  IF AboveUpper(r1, b) THEN [r1 EXCEPT !.Total_Amount = b.Q3] ELSE r1

\* lines 61-62 on one row: the two .loc assignments, one after the other
cap(r, b) ==
    LET r1 == IF BelowLower(r, b) THEN [r EXCEPT !.Total_Amount = b.lower] ELSE r
    IN  IF AboveUpper(r1, b) THEN [r1 EXCEPT !.Total_Amount = b.upper] ELSE r1

\* variant of cap_outliers: the rows outside the bounds are removed
drop_outliers(rows, b) ==
    KeepWhere(rows, [i \in 1..Len(rows) |->
                       ~(BelowLower(rows[i], b) \/ AboveUpper(rows[i], b))])

cap_outliers(rows, b) == [i \in 1..Len(rows) |-> cap(rows[i], b)]

\* lines 75-80 on one row
add_derived(r) ==
    LET t == r.Order_Date
        dated == IF IsNull(r, "Order_Date")
                 THEN [r EXCEPT !.Year = 0, !.Month = 0, !.Month_Name = "",
                                !.Quarter = 0, !.Day_of_Week = "",
                                !.na = (@ \ DerivedCols) \cup
                                       {"Year", "Month", "Month_Name", "Quarter",
                                        "Day_of_Week"}]
                 ELSE [r EXCEPT !.Year = t.year, !.Month = t.month,
                                !.Month_Name = MonthNames[t.month],
                                !.Quarter = quarter(t),
                                !.Day_of_Week = day_name(t),
                                !.na = @ \ DerivedCols]
    IN  IF IsNull(r, "Total_Amount") \/ IsNull(r, "Discount")
        THEN [dated EXCEPT !.Revenue_After_Discount = 0,
                           !.na = @ \cup {"Revenue_After_Discount"}]
        ELSE [dated EXCEPT !.Revenue_After_Discount = r.Total_Amount - r.Discount]

NoBounds == [nan |-> TRUE, Q1 |-> 0, Q3 |-> 0, lower |-> 0, upper |-> 0]

-----------------------------------------------------------------------------
(* analyzer.py: groupby / agg / round / sort_values / head *)

\* a float cell of an aggregate table: NaN, or a number of hundredths
NaN == [nan |-> TRUE, v |-> 0]
Num(x) == [nan |-> FALSE, v |-> x]

\* every string of the model, in the order Python compares strings
Lexicon ==
    <<"18-25", "26-35", "36-45", "46-55", "56+", "Action Figure", "Africa", "Asia",
      "Bank Transfer", "Beauty", "Books", "CUST1001", "CUST2002",
      "Cash on Delivery", "Clothing", "Coffee", "Coffee Maker", "Credit Card",
      "Debit Card", "Electronics", "Europe", "Fiction", "Food & Beverages",
      "Home & Kitchen", "Laptop", "North America", "Oceania", "PayPal",
      "Skincare Set", "South America", "Sports", "T-Shirt", "Toys", "Unknown",
      "Yoga Mat">>

Rank(str) == CHOOSE i \in 1..Len(Lexicon) : Lexicon[i] = str

\* the order of group keys: a key is a tuple of strings, compared item by item
KeyCode(key) ==
    IF Len(key) = 1 THEN Rank(key[1])
    ELSE Rank(key[1]) * (Len(Lexicon) + 1) + Rank(key[2])

\* groupby(by): the distinct keys in ascending order; rows with a missing key
\* column are left out (dropna)
RECURSIVE SortKeys(_)
SortKeys(S) ==
    IF S = {} THEN <<>>
    ELSE LET m == CHOOSE x \in S : \A y \in S : KeyCode(x) <= KeyCode(y)
         IN  <<m>> \o SortKeys(S \ {m})

KeyOf(r, by) == [k \in 1..Len(by) |-> r[by[k]]]

HasKey(r, by) == \A k \in 1..Len(by) : ~IsNull(r, by[k])

GroupKeys(rows, by) ==
    SortKeys({KeyOf(rows[i], by) : i \in {j \in 1..Len(rows) : HasKey(rows[j], by)}})

Members(rows, by, key) ==
    KeepWhere(rows, [i \in 1..Len(rows) |->
                       HasKey(rows[i], by) /\ KeyOf(rows[i], by) = key])

\* the present values of a column
Present(rows, col) ==
    LET have == KeepWhere(rows, [i \in 1..Len(rows) |-> ~IsNull(rows[i], col)])
    IN  [i \in 1..Len(have) |-> have[i][col]]

\* 'sum', 'count' and 'mean' of an amount column, .round(2): hundredths
agg_sum(rows, col) == Round2(SumSeq(Present(rows, col)))
agg_count(rows, col) == Len(Present(rows, col))
nunique(rows, col) ==
    Cardinality({Present(rows, col)[i] : i \in 1..Len(Present(rows, col))})
agg_mean(rows, col) ==
    IF Present(rows, col) = <<>> THEN NaN
    ELSE Num(RoundHalfEven(SumSeq(Present(rows, col)) * 100,
                           Dollar * Len(Present(rows, col))))

\* variant of share: the quotient is cut after two decimals instead of rounded
share_floor(part, total) ==
    IF total = 0 THEN NaN
    ELSE Num((((part * 100) \div total) * 100)
             + ((((part * 100) % total) * 100) \div total))

\* (part / total * 100).round(2), in hundredths of a percent; 0 / 0 is NaN
\* (the quotient is taken in two steps of two digits to stay within 32 bits)
share(part, total) ==
    IF total = 0 THEN NaN
    ELSE LET whole == (part * 100) \div total
             rest == (part * 100) - whole * total
         IN  Num(whole * 100 + RoundHalfEven(rest * 100, total))

\* sort_values('Total_Revenue', ascending=False) sorts with the default
\* kind='quicksort', which numpy does not promise to be stable.  The order of
\* rows of equal revenue is the build's: the scalar quicksort sorts a table of
\* up to 16 rows by insertion and leaves such rows in the order they had, the
\* vectorised quicksort (sorting networks) does not keep it.
ArgsortKinds == {"insertion", "network"}

\* descending, rows of equal revenue in the order they had
RECURSIVE InsertDesc(_, _)
InsertDesc(t, x) ==
    IF t = <<>> THEN <<x>>
    ELSE IF x.Total_Revenue > Head(t).Total_Revenue THEN <<x>> \o t
    ELSE <<Head(t)>> \o InsertDesc(Tail(t), x)

\* descending, rows of equal revenue in the opposite of the order they had
RECURSIVE InsertDescFront(_, _)
InsertDescFront(t, x) ==
    IF t = <<>> THEN <<x>>
    ELSE IF x.Total_Revenue >= Head(t).Total_Revenue THEN <<x>> \o t
    ELSE <<Head(t)>> \o InsertDescFront(Tail(t), x)

RECURSIVE sort_by(_, _)
sort_by(t, kind) ==
    IF t = <<>> THEN <<>>
    ELSE LET front == sort_by(SubSeq(t, 1, Len(t) - 1), kind)
         IN  IF kind = "insertion" THEN InsertDesc(front, t[Len(t)])
             ELSE InsertDescFront(front, t[Len(t)])

\* variant of sort_values: ascending=True
sort_values_ascending(t) ==
    LET d == sort_by(t, argsort) IN [i \in 1..Len(d) |-> d[Len(d) + 1 - i]]

sort_values(t) == sort_by(t, argsort)

\* DataFrame.head(n): the first n rows; for n < 0 all rows but the last -n
head(t, n) ==
    IF n >= 0 THEN SubSeq(t, 1, IF n < Len(t) THEN n ELSE Len(t))
    ELSE SubSeq(t, 1, Len(t) + n)

Column(t, col) == [i \in 1..Len(t) |-> t[i][col]]

\* analyze_by_category and analyze_by_region, lines 66-76 and 91-101
revenue_analysis(rows, by) ==
    LET keys == GroupKeys(rows, <<by>>)
        grouped == [i \in 1..Len(keys) |->
                      LET g == Members(rows, <<by>>, keys[i])
                      IN  [key |-> keys[i],
                           Total_Revenue |-> agg_sum(g, "Total_Amount"),
                           Avg_Order_Value |-> agg_mean(g, "Total_Amount"),
                           Order_Count |-> agg_count(g, "Total_Amount"),
                           Total_Quantity |-> SumSeq(Present(g, "Quantity"))]]
        sorted == sort_values(grouped)
        total == SumSeq(Column(sorted, "Total_Revenue"))
    IN  [i \in 1..Len(sorted) |->
           [key |-> sorted[i].key,
            Total_Revenue |-> sorted[i].Total_Revenue,
            Avg_Order_Value |-> sorted[i].Avg_Order_Value,
            Order_Count |-> sorted[i].Order_Count,
            Total_Quantity |-> sorted[i].Total_Quantity,
            Revenue_Share |-> share(sorted[i].Total_Revenue, total)]]

analyze_by_category(rows) == revenue_analysis(rows, "Category")

analyze_by_region(rows) == revenue_analysis(rows, "Region")

\* analyze_top_products, lines 159-168
analyze_top_products(rows, n) ==
    LET by == <<"Product_Name", "Category">>
        keys == GroupKeys(rows, by)
        grouped == [i \in 1..Len(keys) |->
                      LET g == Members(rows, by, keys[i])
                      IN  [key |-> keys[i],
                           Total_Revenue |-> agg_sum(g, "Total_Amount"),
                           Order_Count |-> agg_count(g, "Total_Amount"),
                           Total_Quantity |-> SumSeq(Present(g, "Quantity")),
                           Avg_Price |-> agg_mean(g, "Unit_Price")]]
    IN  head(sort_values(grouped), n)

\* analyze_payment_methods, lines 207-217
analyze_payment_methods(rows) ==
    LET by == <<"Payment_Method">>
        keys == GroupKeys(rows, by)
        grouped == [i \in 1..Len(keys) |->
                      LET g == Members(rows, by, keys[i])
                      IN  [key |-> keys[i],
                           Total_Revenue |-> agg_sum(g, "Total_Amount"),
                           Transaction_Count |-> agg_count(g, "Total_Amount"),
                           Order_Count |-> agg_count(g, "Order_ID")]]
        sorted == sort_values(grouped)
        total == SumSeq(Column(sorted, "Order_Count"))
    IN  [i \in 1..Len(sorted) |->
           [key |-> sorted[i].key,
            Total_Revenue |-> sorted[i].Total_Revenue,
            Transaction_Count |-> sorted[i].Transaction_Count,
            Order_Count |-> sorted[i].Order_Count,
            Usage |-> share(sorted[i].Order_Count, total)]]

\* analyze_customer_demographics, lines 183-192
analyze_customer_demographics(rows) ==
    LET by == <<"Customer_Age_Group">>
        keys == GroupKeys(rows, by)
        grouped == [i \in 1..Len(keys) |->
                      LET g == Members(rows, by, keys[i])
                      IN  [key |-> keys[i],
                           Unique_Customers |-> nunique(g, "Customer_ID"),
                           Total_Revenue |-> agg_sum(g, "Total_Amount"),
                           Avg_Order_Value |-> agg_mean(g, "Total_Amount"),
                           Total_Orders |-> agg_count(g, "Order_ID")]]
    IN  sort_values(grouped)

\* the keys of a groupby on Year, Month or Quarter, in ascending order
NumKeyCode(key) == IF Len(key) = 1 THEN key[1] ELSE key[1] * 100 + key[2]

RECURSIVE SortNumKeys(_)
SortNumKeys(S) ==
    IF S = {} THEN <<>>
    ELSE LET m == CHOOSE x \in S : \A y \in S : NumKeyCode(x) <= NumKeyCode(y)
         IN  <<m>> \o SortNumKeys(S \ {m})

\* one table of analyze_by_time (lines 119-123, 127-131, 135-139).  Year, Month
\* and Quarter are float columns when a row has no date (NaT), and then the
\* keys of the table are floats
time_table(rows, by) ==
    LET keys == SortNumKeys({KeyOf(rows[i], by) :
                               i \in {j \in 1..Len(rows) : HasKey(rows[j], by)}})
        floats == \E i \in 1..Len(rows) : IsNull(rows[i], "Year")
    IN  [i \in 1..Len(keys) |->
           LET g == Members(rows, by, keys[i])
           IN  [key |-> keys[i],
                float_key |-> floats,
                Revenue |-> agg_sum(g, "Total_Amount"),
                Orders |-> agg_count(g, "Total_Amount"),
                Quantity |-> SumSeq(Present(g, "Quantity"))]]

\* analyze_by_time, lines 116-142
analyze_by_time(rows) ==
    [monthly |-> time_table(rows, <<"Year", "Month">>),
     quarterly |-> time_table(rows, <<"Year", "Quarter">>),
     yearly |-> time_table(rows, <<"Year">>)]

-----------------------------------------------------------------------------
(* analyzer.py: calculate_kpis *)

RECURSIVE GCD(_, _)
GCD(a, b) == IF b = 0 THEN a ELSE GCD(b, a % b)

\* the float n / d (d > 0), kept exact as a fraction in lowest terms
Fraction(n, d) ==
    LET g == GCD(IF n < 0 THEN 0 - n ELSE n, d)
    IN  [nan |-> FALSE, num |-> n \div g, den |-> d \div g]

NaNFraction == [nan |-> TRUE, num |-> 0, den |-> 1]

\* variant of series_sum: the first value that is present
series_first(rows, col) ==
    IF Present(rows, col) = <<>> THEN 0 ELSE Present(rows, col)[1]

\* Series.sum() and Series.mean(): missing values are skipped
series_sum(rows, col) == SumSeq(Present(rows, col))

series_mean(rows, col) ==
    IF Present(rows, col) = <<>> THEN NaNFraction
    ELSE Fraction(series_sum(rows, col), Len(Present(rows, col)))

\* variant of discount_rate without the guard: numpy divides 0 by 0 to NaN
discount_rate_unguarded(discount, amount) ==
    IF amount = 0 THEN NaNFraction ELSE Fraction(discount * 100, amount)

\* line 29: (discount / amount) * 100 if amount > 0 else 0
discount_rate(discount, amount) ==
    IF amount > 0 THEN Fraction(discount * 100, amount) ELSE Fraction(0, 1)

\* calculate_kpis, lines 22-35; amounts in 1/64 currency units
calculate_kpis(rows) ==
    [Total_Revenue |-> series_sum(rows, "Total_Amount"),
     Total_Orders |-> Len(rows),
     Average_Order_Value |-> series_mean(rows, "Total_Amount"),
     Total_Quantity_Sold |-> series_sum(rows, "Quantity"),
     Average_Quantity_per_Order |-> series_mean(rows, "Quantity"),
     Total_Discount_Given |-> series_sum(rows, "Discount"),
     Discount_Rate |-> discount_rate(series_sum(rows, "Discount"),
                                     series_sum(rows, "Total_Amount")),
     Unique_Customers |-> nunique(rows, "Customer_ID"),
     Unique_Products |-> nunique(rows, "Product_Name"),
     Unique_Categories |-> nunique(rows, "Category")]

\* the name kpis before it is assigned
NoKpis ==
    [Total_Revenue |-> 0, Total_Orders |-> 0, Average_Order_Value |-> NaNFraction,
     Total_Quantity_Sold |-> 0, Average_Quantity_per_Order |-> NaNFraction,
     Total_Discount_Given |-> 0, Discount_Rate |-> NaNFraction,
     Unique_Customers |-> 0, Unique_Products |-> 0, Unique_Categories |-> 0]

NoTimeAnalysis == [monthly |-> <<>>, quarterly |-> <<>>, yearly |-> <<>>]

-----------------------------------------------------------------------------
(* insights_generator.py: generate_insights_report *)

\* variant of idxmax: the last key that holds the maximum
idxmax_last(t, col) ==
    t[CHOOSE i \in 1..Len(t) :
        /\ \A j \in 1..Len(t) : t[j][col] <= t[i][col]
        /\ \A j \in (i + 1)..Len(t) : t[j][col] < t[i][col]].key

\* the position numpy's argmax / argmin reports on a non-empty column: a scan
\* from the front that moves on only to a strictly better value
RECURSIVE argbest(_, _, _, _)
argbest(vals, sign, best, i) ==
    IF i > Len(vals) THEN best
    ELSE IF sign * vals[i] > sign * vals[best] THEN argbest(vals, sign, i, i + 1)
    ELSE argbest(vals, sign, best, i + 1)

\* Series.idxmax() and Series.idxmin() of a column of a non-empty table
idxmax(t, col) == t[argbest(Column(t, col), 1, 1, 2)].key
idxmin(t, col) == t[argbest(Column(t, col), 0 - 1, 1, 2)].key

NoReport == <<>>

\* table.index[0] (lines 55, 64, 72, 80, 89): IndexError on an empty table
index0(t) ==
    IF t = <<>> THEN [error |-> "IndexError", key |-> <<>>]
    ELSE [error |-> "none", key |-> t[1].key]

\* variant of Raise: the exception is swallowed and a report of placeholders
\* is written
write_placeholders(exception) ==
    [error |-> "none", report |-> <<[placeholder |-> exception]>>]

\* an exception leaves generate_insights_report before the file is written
Raise(exception) == [error |-> exception, report |-> NoReport]

\* generate_insights_report, lines 33-166: the facts the report names.  The
\* file is written at the end (lines 161-166), so an exception raised while
\* the lines are put together leaves no report.
generate_insights_report(k, category, region, time, products, demo, payment) ==
    LET top_category == index0(category)
        top_region == index0(region)
        top_product == index0(products)
        top_age_group == index0(demo)
        top_payment == index0(payment)
        monthly == time.monthly
    IN  IF top_category.error # "none" THEN Raise(top_category.error)
        ELSE IF top_region.error # "none" THEN Raise(top_region.error)
        ELSE IF top_product.error # "none" THEN Raise(top_product.error)
        ELSE IF top_age_group.error # "none" THEN Raise(top_age_group.error)
        ELSE IF top_payment.error # "none" THEN Raise(top_payment.error)
        \* lines 97-100: idxmax of an empty column
        ELSE IF monthly = <<>> THEN Raise("ValueError: idxmax")
        \* lines 103-104: format code 02d on a float month
        ELSE IF monthly[1].float_key THEN Raise("ValueError: format")
        ELSE [error |-> "none",
              report |->
                <<[Total_Revenue |-> k.Total_Revenue,
                   Total_Orders |-> k.Total_Orders,
                   Discount_Rate |-> k.Discount_Rate,
                   top_category |-> top_category.key[1],
                   top_category_revenue |-> category[1].Total_Revenue,
                   top_category_share |-> category[1].Revenue_Share,
                   top_region |-> top_region.key[1],
                   top_region_revenue |-> region[1].Total_Revenue,
                   top_product |-> top_product.key[1],
                   top_product_revenue |-> products[1].Total_Revenue,
                   top_age_group |-> top_age_group.key[1],
                   top_age_revenue |-> demo[1].Total_Revenue,
                   top_payment |-> top_payment.key[1],
                   top_payment_usage |-> payment[1].Usage,
                   best_month_idx |-> idxmax(monthly, "Revenue"),
                   worst_month_idx |-> idxmin(monthly, "Revenue"),
                   top_categories |-> [i \in 1..Len(head(category, 3)) |->
                                         category[i].key[1]]]>>]

-----------------------------------------------------------------------------
(* Inputs: the record sets clean_sales_data is called with *)

Categories == <<"Electronics", "Clothing", "Home & Kitchen", "Books", "Sports",
                "Beauty", "Toys", "Food & Beverages">>

FirstProduct == <<"Laptop", "T-Shirt", "Coffee Maker", "Fiction", "Yoga Mat",
                  "Skincare Set", "Action Figure", "Coffee">>

Regions == <<"North America", "Europe", "Asia", "South America", "Africa",
             "Oceania">>

PaymentMethods == <<"Credit Card", "Debit Card", "PayPal", "Cash on Delivery",
                    "Bank Transfer">>

AgeGroups == <<"18-25", "26-35", "36-45", "46-55", "56+">>

Wrap(names, i) == names[((i - 1) % Len(names)) + 1]

BaseRow ==
    Row(1, 20230115, "CUST1001", "Laptop", "Electronics", 1, 100 * Dollar,
        100 * Dollar, 0, "Europe", "PayPal", "18-25")

OtherRow ==
    Row(2, 20240410, "CUST2002", "Fiction", "Books", 3, 100 * Dollar,
        300 * Dollar, 30 * Dollar, "Asia", "Credit Card", "26-35")

\* rows a caller can hand over: complete ones, one that shares its Order_ID with
\* BaseRow and differs in one field, one whose age group is the text "Unknown",
\* and rows with a missing or malformed cell
RowPool ==
    {BaseRow,
     [BaseRow EXCEPT !.Category = "Books"],
     OtherRow,
     SetNull(BaseRow, "Customer_Age_Group"),
     [BaseRow EXCEPT !.Customer_Age_Group = "Unknown"],
     SetNull(BaseRow, "Category"),
     SetNull(BaseRow, "Total_Amount"),
     SetNull(BaseRow, "Quantity"),
     SetNull(BaseRow, "Order_Date"),
     [BaseRow EXCEPT !.Order_Date = [text |-> 20230230]],
     [BaseRow EXCEPT !.Quantity = 0 - 2]}

PoolInputs == UNION {[1..n -> RowPool] : n \in 0..MaxRows}

\* the revenue family: complete rows with distinct Order_IDs, all of category
\* Books, a 10 % discount, and a Total_Amount of amt currency units
AmountValues == {10, 15, 30, 1000}

AmountRow(i, amt) ==
    Row(i, 20230100 + i, Wrap(<<"CUST1001", "CUST2002">>, i), "Fiction", "Books",
        1, amt * Dollar, amt * Dollar, (amt * Dollar) \div 10,
        "Europe", "PayPal", Wrap(AgeGroups, i))

AmountRows(f) == [i \in DOMAIN f |-> AmountRow(i, f[i])]

AmountInputs ==
    UNION {{AmountRows(f) : f \in [1..n -> AmountValues]} : n \in 0..MaxAmountRows}

\* the same, followed by a second copy of the first row
DuplicateInputs ==
    {Append(rows, rows[1]) : rows \in {r \in AmountInputs : Len(r) = MaxAmountRows}}

\* the five revenues of the documented scenario
ScenarioRevenues == <<10, 20, 30, 1000, 15>>

ScenarioInput == AmountRows(ScenarioRevenues)

\* the group family: row i has the i-th category, product, region and month;
\* the first rows have one payment method each, the later ones the first method
GroupRow(i, amt) ==
    Row(i, 20230015 + 100 * (((i - 1) % 12) + 1), "CUST1001",
        Wrap(FirstProduct, i), Wrap(Categories, i), 1, amt * Dollar, amt * Dollar,
        0, Wrap(Regions, i),
        IF i <= Len(PaymentMethods) THEN PaymentMethods[i] ELSE PaymentMethods[1],
        Wrap(AgeGroups, i))

GroupInputs ==
    UNION {{[i \in 1..n |-> GroupRow(i, f[i])] : f \in [1..n -> {100, 200}]} :
           n \in 1..MaxGroups}

\* the scenario with the age group of its second record missing and a second
\* copy of its first record at the end
MessyInput ==
    Append([ScenarioInput EXCEPT ![2] = SetNull(@, "Customer_Age_Group")],
           ScenarioInput[1])

Inputs == PoolInputs \cup AmountInputs \cup DuplicateInputs \cup {ScenarioInput}
          \cup GroupInputs \cup {MessyInput}

DefaultTopN == 10

TopNs == ((0 - MaxTopN)..MaxTopN) \cup {DefaultTopN}

-----------------------------------------------------------------------------
(* The pipeline *)

Init ==
    /\ pc = "start"
    /\ call = 1
    /\ df \in {Frame(RawCols, rows) : rows \in Inputs}
    /\ df_clean = NoFrame
    /\ initial_missing = 0
    /\ duplicates = 0
    /\ outliers = 0
    /\ bounds = NoBounds
    /\ error = "none"
    /\ same_object = FALSE
    /\ argsort \in ArgsortKinds
    /\ kpis = NoKpis
    /\ category_analysis = <<>>
    /\ region_analysis = <<>>
    /\ time_analysis = NoTimeAnalysis
    /\ top_n = DefaultTopN
    /\ top_products = <<>>
    /\ demo_analysis = <<>>
    /\ payment_analysis = <<>>
    /\ report = NoReport
    /\ run = "pipeline"
    /\ filtered_df = NoFrame
    /\ warning = FALSE

tables == <<kpis, category_analysis, region_analysis, time_analysis, top_n,
            top_products, demo_analysis, payment_analysis, report>>

\* the caller's object after an in-place change that leaves df_clean as frame
InPlace(frame) == IF same_object THEN frame ELSE df

\* line 22: df_clean = df.copy()
Copy ==
    /\ pc = "start"
    /\ df_clean' = copy(df).frame
    /\ same_object' = copy(df).same_object
    /\ pc' = "missing"
    /\ UNCHANGED <<call, df, initial_missing, duplicates, outliers, bounds, error,
                   argsort, tables, dashboard>>

\* lines 28-37: count every missing cell; if there is one, fill the age groups
\* (an assignment to a column of df_clean)
HandleMissing ==
    /\ pc = "missing"
    /\ initial_missing' = isnull_sum(df_clean)
    /\ df_clean' = IF initial_missing' > 0
                   THEN [df_clean EXCEPT !.rows =
                           [i \in 1..Len(@) |-> fillna(@[i], "Unknown")]]
                   ELSE df_clean
    /\ df' = InPlace(df_clean')
    /\ pc' = "duplicates"
    /\ UNCHANGED <<call, duplicates, outliers, bounds, error, same_object, argsort,
                   tables, dashboard>>

\* lines 39-46; drop_duplicates returns a new object
RemoveDuplicates ==
    /\ pc = "duplicates"
    /\ duplicates' = Cardinality({i \in 1..Len(df_clean.rows) :
                                    duplicated(df_clean.rows)[i]})
    /\ df_clean' = IF duplicates' > 0
                   THEN [df_clean EXCEPT !.rows = drop_duplicates(@)]
                   ELSE df_clean
    /\ same_object' = (same_object /\ duplicates' = 0)
    /\ pc' = "outliers"
    /\ UNCHANGED <<call, df, initial_missing, outliers, bounds, error, argsort,
                   tables, dashboard>>

\* lines 48-65; the two .loc assignments write into df_clean
HandleOutliers ==
    /\ pc = "outliers"
    /\ bounds' = iqr_bounds(df_clean.rows)
    /\ outliers' = count_outliers(df_clean.rows, bounds')
    /\ df_clean' = IF outliers' > 0
                   THEN [df_clean EXCEPT !.rows = cap_outliers(@, bounds')]
                   ELSE df_clean
    /\ df' = InPlace(df_clean')
    /\ pc' = "types"
    /\ UNCHANGED <<call, initial_missing, duplicates, error, same_object, argsort,
                   tables, dashboard>>

\* lines 67-71: pd.to_datetime raises on a cell it cannot parse, astype(int) on
\* a missing Quantity; a raised exception ends the call without a return value
EnsureTypes ==
    /\ pc = "types"
    /\ IF \E i \in 1..Len(df_clean.rows) : ~Parseable(df_clean.rows[i])
       THEN /\ error' = "ValueError: to_datetime"
            /\ pc' = "error"
            /\ UNCHANGED df_clean
       ELSE IF \E i \in 1..Len(df_clean.rows) : IsNull(df_clean.rows[i], "Quantity")
       THEN /\ error' = "ValueError: astype(int)"
            /\ pc' = "error"
            /\ df_clean' = [df_clean EXCEPT !.rows =
                              [i \in 1..Len(@) |-> to_datetime(@[i])]]
       ELSE /\ df_clean' = [df_clean EXCEPT !.rows =
                              [i \in 1..Len(@) |-> to_datetime(@[i])]]
            /\ pc' = "derived"
            /\ UNCHANGED error
    /\ df' = InPlace(df_clean')
    /\ UNCHANGED <<call, initial_missing, duplicates, outliers, bounds, same_object,
                   argsort, tables, dashboard>>

\* lines 73-88
AddDerived ==
    /\ pc = "derived"
    /\ df_clean' = Frame(df_clean.columns \cup DerivedCols,
                         [i \in 1..Len(df_clean.rows) |-> add_derived(df_clean.rows[i])])
    /\ df' = InPlace(df_clean')
    /\ pc' = "returned"
    /\ UNCHANGED <<call, initial_missing, duplicates, outliers, bounds, error,
                   same_object, argsort, tables, dashboard>>

\* a caller passes the cleaned record set to clean_sales_data again
CleanAgain ==
    /\ run = "pipeline"
    /\ pc = "returned"
    /\ call = 1
    /\ call' = 2
    /\ df' = df_clean
    /\ df_clean' = NoFrame
    /\ initial_missing' = 0
    /\ duplicates' = 0
    /\ outliers' = 0
    /\ bounds' = NoBounds
    /\ same_object' = FALSE
    /\ pc' = "start"
    /\ UNCHANGED <<error, argsort, tables, dashboard>>

cleaner == <<call, df, df_clean, initial_missing, duplicates, outliers, bounds,
             same_object, argsort>>

\* main_analysis.py line 57: the cleaned record set goes to the analyses
CalculateKpis ==
    /\ run = "pipeline"
    /\ pc = "returned"
    /\ call = 1
    /\ kpis' = calculate_kpis(df_clean.rows)
    /\ pc' = "category"
    /\ UNCHANGED <<dashboard, cleaner, error, category_analysis, region_analysis,
                   time_analysis, top_n, top_products, demo_analysis,
                   payment_analysis, report>>

\* main_analysis.py line 64
AnalyzeByCategory ==
    /\ pc = "category"
    /\ category_analysis' = analyze_by_category(df_clean.rows)
    /\ pc' = "region"
    /\ UNCHANGED <<dashboard, cleaner, error, kpis, region_analysis, time_analysis, top_n,
                   top_products, demo_analysis, payment_analysis, report>>

\* main_analysis.py line 72
AnalyzeByRegion ==
    /\ pc = "region"
    /\ region_analysis' = analyze_by_region(df_clean.rows)
    /\ pc' = "time"
    /\ UNCHANGED <<dashboard, cleaner, error, kpis, category_analysis, time_analysis, top_n,
                   top_products, demo_analysis, payment_analysis, report>>

\* main_analysis.py line 80
AnalyzeByTime ==
    /\ pc = "time"
    /\ time_analysis' = analyze_by_time(df_clean.rows)
    /\ pc' = "top_products"
    /\ UNCHANGED <<dashboard, cleaner, error, kpis, category_analysis, region_analysis, top_n,
                   top_products, demo_analysis, payment_analysis, report>>

\* main_analysis.py line 92, streamlit_app.py line 210: top_n is the caller's
AnalyzeTopProducts ==
    /\ pc = "top_products"
    /\ \E n \in TopNs :
         /\ top_n' = n
         /\ top_products' = analyze_top_products(df_clean.rows, n)
    /\ pc' = "demographics"
    /\ UNCHANGED <<dashboard, cleaner, error, kpis, category_analysis, region_analysis,
                   time_analysis, demo_analysis, payment_analysis, report>>

\* main_analysis.py line 100
AnalyzeCustomerDemographics ==
    /\ pc = "demographics"
    /\ demo_analysis' = analyze_customer_demographics(df_clean.rows)
    /\ pc' = "payment"
    /\ UNCHANGED <<dashboard, cleaner, error, kpis, category_analysis, region_analysis,
                   time_analysis, top_n, top_products, payment_analysis, report>>

\* main_analysis.py line 108
AnalyzePaymentMethods ==
    /\ pc = "payment"
    /\ payment_analysis' = analyze_payment_methods(df_clean.rows)
    /\ pc' = "analysed"
    /\ UNCHANGED <<dashboard, cleaner, error, kpis, category_analysis, region_analysis,
                   time_analysis, top_n, top_products, demo_analysis, report>>

\* main_analysis.py lines 122-123: the report is written, or the call raises
GenerateInsightsReport ==
    /\ pc = "analysed"
    /\ LET result == generate_insights_report(kpis, category_analysis,
                       region_analysis, time_analysis, top_products,
                       demo_analysis, payment_analysis)
       IN  /\ report' = result.report
           /\ error' = result.error
           /\ pc' = IF result.error = "none" THEN "reported" ELSE "report_error"
    /\ UNCHANGED <<dashboard, cleaner, kpis, category_analysis, region_analysis,
                   time_analysis, top_n, top_products, demo_analysis,
                   payment_analysis>>

Next ==
    \/ Copy
    \/ HandleMissing
    \/ RemoveDuplicates
    \/ HandleOutliers
    \/ EnsureTypes
    \/ AddDerived
    \/ CleanAgain
    \/ CalculateKpis
    \/ AnalyzeByCategory
    \/ AnalyzeByRegion
    \/ AnalyzeByTime
    \/ AnalyzeTopProducts
    \/ AnalyzeCustomerDemographics
    \/ AnalyzePaymentMethods
    \/ GenerateInsightsReport

Spec == Init /\ [][Next]_vars

-----------------------------------------------------------------------------
(* generate_insights_report called on its own: each of the six tables it is
   given is either the table of a cleaned three-record set or an empty table *)

SampleRows ==
    [i \in 1..3 |-> add_derived(to_datetime(GroupRow(i, 100 * i)))]

TableNames == {"category", "region", "monthly", "products", "demographics",
               "payment"}

ReportInit ==
    /\ pc = "analysed"
    /\ call = 1
    /\ df = Frame(RawCols, [i \in 1..3 |-> GroupRow(i, 100 * i)])
    /\ df_clean = Frame(RawCols \cup DerivedCols, SampleRows)
    /\ initial_missing = 0
    /\ duplicates = 0
    /\ outliers = 0
    /\ bounds = iqr_bounds(SampleRows)
    /\ error = "none"
    /\ same_object = FALSE
    /\ argsort \in ArgsortKinds
    /\ kpis = calculate_kpis(SampleRows)
    /\ top_n = DefaultTopN
    /\ report = NoReport
    /\ run = "pipeline"
    /\ filtered_df = NoFrame
    /\ warning = FALSE
    /\ \E empty \in SUBSET TableNames :
         /\ category_analysis = IF "category" \in empty THEN <<>>
                                ELSE analyze_by_category(SampleRows)
         /\ region_analysis = IF "region" \in empty THEN <<>>
                              ELSE analyze_by_region(SampleRows)
         /\ time_analysis = IF "monthly" \in empty THEN NoTimeAnalysis
                            ELSE analyze_by_time(SampleRows)
         /\ top_products = IF "products" \in empty THEN <<>>
                           ELSE analyze_top_products(SampleRows, DefaultTopN)
         /\ demo_analysis = IF "demographics" \in empty THEN <<>>
                            ELSE analyze_customer_demographics(SampleRows)
         /\ payment_analysis = IF "payment" \in empty THEN <<>>
                               ELSE analyze_payment_methods(SampleRows)

ReportNext == GenerateInsightsReport

ReportSpec == ReportInit /\ [][ReportNext]_vars

-----------------------------------------------------------------------------
(* streamlit_app.py: one run of the dashboard script *)

MaxFileRows == 2      \* longest CSV file the dashboard loads

\* no uploaded file, no file at a default path
NoFile == NoFrame

\* variant of empty: a frame is never taken for empty
never_empty(frame) == FALSE

\* DataFrame.empty
empty(frame) == frame.columns = {} \/ Len(frame.rows) = 0

\* pd.to_datetime(errors="coerce"): a cell that cannot be parsed becomes NaT
to_datetime_coerce(r) ==
    IF Parseable(r) THEN to_datetime(r) ELSE SetNull(r, "Order_Date")

\* pd.read_csv(parse_dates=["Order_Date"]): the column is converted when every
\* cell can be, and is left as text otherwise
read_csv_parse_dates(file) ==
    IF \A i \in 1..Len(file.rows) : Parseable(file.rows[i])
    THEN [file EXCEPT !.rows = [i \in 1..Len(@) |-> to_datetime(@[i])]]
    ELSE file

\* load_base_data, lines 29-44; fs holds the uploaded file and the files at
\* the two default paths
load_base_data(fs) ==
    IF fs.uploaded # NoFile
    THEN [error |-> "none",
          df |-> [fs.uploaded EXCEPT !.rows =
                    [i \in 1..Len(@) |-> to_datetime_coerce(@[i])]]]
    ELSE IF fs.processed # NoFile
    THEN [error |-> "none", df |-> read_csv_parse_dates(fs.processed)]
    ELSE IF fs.raw # NoFile
    THEN [error |-> "none", df |-> read_csv_parse_dates(fs.raw)]
    ELSE [error |-> "FileNotFoundError", df |-> NoFrame]

\* line 49
required_cols == {"Year", "Month", "Quarter", "Day_of_Week", "Revenue_After_Discount"}

\* the date of a Timestamp as the number yyyymmdd
DateCode(t) == (t.year * 10000) + (t.month * 100) + t.day

\* Series.dropna().unique() of a column
options(rows, col) ==
    {rows[i][col] : i \in {j \in 1..Len(rows) : ~IsNull(rows[j], col)}}

\* lines 62-63: the dates of the rows that have one
dates(rows) ==
    {DateCode(rows[i].Order_Date) :
       i \in {j \in 1..Len(rows) : ~IsNull(rows[j], "Order_Date")}}

min_date(rows) == CHOOSE d \in dates(rows) : \A e \in dates(rows) : d <= e
max_date(rows) == CHOOSE d \in dates(rows) : \A e \in dates(rows) : d >= e

\* Series.isin: a missing value is in no list
isin(r, col, values) == ~IsNull(r, col) /\ r[col] \in values

\* lines 95-101; a comparison with NaT is false
mask(rows, start_date, end_date, categories, regions, payments) ==
    [i \in 1..Len(rows) |->
       /\ ~IsNull(rows[i], "Order_Date")
       /\ DateCode(rows[i].Order_Date) >= start_date
       /\ DateCode(rows[i].Order_Date) <= end_date
       /\ isin(rows[i], "Category", categories)
       /\ isin(rows[i], "Region", regions)
       /\ isin(rows[i], "Payment_Method", payments)]

\* the rows of the CSV files
FilePool ==
    {BaseRow,
     OtherRow,
     SetNull(BaseRow, "Customer_Age_Group"),
     SetNull(OtherRow, "Order_Date"),
     [BaseRow EXCEPT !.Order_Date = [text |-> 20230230]]}

\* the row of a CSV file that has the derived columns as well
FileRowWithDerived(r) ==
    IF Parseable(r)
    THEN [add_derived(to_datetime(r)) EXCEPT !.Order_Date = r.Order_Date]
    ELSE [add_derived(SetNull(r, "Order_Date")) EXCEPT
             !.Order_Date = r.Order_Date, !.na = @ \ {"Order_Date"}]

FileRows == UNION {[1..n -> FilePool] : n \in 0..MaxFileRows}

Files ==
    {Frame(RawCols, rows) : rows \in FileRows}
    \cup {Frame(RawCols \cup DerivedCols,
                [i \in 1..Len(rows) |-> FileRowWithDerived(rows[i])]) :
          rows \in FileRows}

SampleFile == Frame(RawCols, <<OtherRow>>)

\* what a run finds: an uploaded file beside the default files, a processed
\* file beside the raw file, the raw file alone, or nothing
FileSystems ==
    {[uploaded |-> f, processed |-> SampleFile, raw |-> SampleFile] : f \in Files}
    \cup {[uploaded |-> NoFile, processed |-> f, raw |-> SampleFile] : f \in Files}
    \cup {[uploaded |-> NoFile, processed |-> NoFile, raw |-> f] : f \in Files}
    \cup {[uploaded |-> NoFile, processed |-> NoFile, raw |-> NoFile]}

\* the dates the date_input offers between min_date and max_date
DatePool == {20230115, 20230701, 20240410}

\* line 209: the slider
SliderMin == 5
SliderMax == 20
SliderTopNs == {SliderMin, DefaultTopN, SliderMax}

DashboardInit ==
    /\ pc = "load"
    /\ run = "dashboard"
    /\ call = 1
    /\ df = NoFrame
    /\ df_clean = NoFrame
    /\ initial_missing = 0
    /\ duplicates = 0
    /\ outliers = 0
    /\ bounds = NoBounds
    /\ error = "none"
    /\ same_object = FALSE
    /\ argsort \in ArgsortKinds
    /\ kpis = NoKpis
    /\ category_analysis = <<>>
    /\ region_analysis = <<>>
    /\ time_analysis = NoTimeAnalysis
    /\ top_n = DefaultTopN
    /\ top_products = <<>>
    /\ demo_analysis = <<>>
    /\ payment_analysis = <<>>
    /\ report = NoReport
    /\ filtered_df = NoFrame
    /\ warning = FALSE

\* main, lines 162-168: without a dataset st.error and st.stop
LoadBaseData ==
    /\ run = "dashboard"
    /\ pc = "load"
    /\ \E fs \in FileSystems :
         /\ df' = load_base_data(fs).df
         /\ error' = load_base_data(fs).error
         /\ pc' = IF load_base_data(fs).error = "none" THEN "loaded" ELSE "no_data"
    /\ UNCHANGED <<call, df_clean, initial_missing, duplicates, outliers, bounds,
                   same_object, argsort, tables, dashboard>>

\* main line 170, prepare_data lines 49-52: the loaded frame as it is when it
\* has the derived columns, the result of clean_sales_data otherwise
PrepareData ==
    /\ run = "dashboard"
    /\ pc = "loaded"
    /\ IF required_cols \subseteq df.columns
       THEN /\ df_clean' = copy(df).frame
            /\ pc' = "prepared"
       ELSE /\ pc' = "start"
            /\ UNCHANGED df_clean
    /\ UNCHANGED <<call, df, initial_missing, duplicates, outliers, bounds, error,
                   same_object, argsort, tables, dashboard>>

\* main line 171, build_filters lines 59-103: pd.to_datetime raises on a text
\* it cannot parse and NaT.date() raises; the date range and the three
\* selections are the user's
BuildFilters ==
    /\ run = "dashboard"
    /\ pc \in {"prepared", "returned"}
    /\ LET rows == df_clean.rows
       IN  IF \E i \in 1..Len(rows) : ~Parseable(rows[i])
           THEN /\ error' = "ValueError: to_datetime"
                /\ pc' = "filter_error"
                /\ UNCHANGED filtered_df
           ELSE IF dates(rows) = {}
           THEN /\ error' = "ValueError: NaT.date()"
                /\ pc' = "filter_error"
                /\ UNCHANGED filtered_df
           ELSE /\ \E start_date, end_date \in
                         {d \in DatePool \cup dates(rows) :
                            d >= min_date(rows) /\ d <= max_date(rows)},
                      categories \in SUBSET options(rows, "Category"),
                      regions \in SUBSET options(rows, "Region"),
                      payments \in SUBSET options(rows, "Payment_Method") :
                      /\ start_date <= end_date
                      /\ filtered_df' =
                           Frame(df_clean.columns,
                                 KeepWhere(rows, mask(rows, start_date, end_date,
                                                      categories, regions, payments)))
                /\ pc' = "filtered"
                /\ UNCHANGED error
    /\ UNCHANGED <<cleaner, tables, run, warning>>

\* main lines 173-175: st.warning and st.stop when nothing is left
StopIfEmpty ==
    /\ run = "dashboard"
    /\ pc = "filtered"
    /\ IF empty(filtered_df)
       THEN /\ warning' = TRUE
            /\ pc' = "stopped"
       ELSE /\ pc' = "kpis"
            /\ UNCHANGED warning
    /\ UNCHANGED <<cleaner, error, tables, run, filtered_df>>

\* main lines 177-199: the KPIs and the overview tab (which calls no analysis)
ShowKpis ==
    /\ run = "dashboard"
    /\ pc = "kpis"
    /\ kpis' = calculate_kpis(filtered_df.rows)
    /\ pc' = "trends"
    /\ UNCHANGED <<dashboard, cleaner, error, category_analysis, region_analysis,
                   time_analysis, top_n, top_products, demo_analysis,
                   payment_analysis, report>>

\* main lines 201-205
ShowTrends ==
    /\ run = "dashboard"
    /\ pc = "trends"
    /\ time_analysis' = analyze_by_time(filtered_df.rows)
    /\ pc' = "products"
    /\ UNCHANGED <<dashboard, cleaner, error, kpis, category_analysis,
                   region_analysis, top_n, top_products, demo_analysis,
                   payment_analysis, report>>

\* main lines 207-216
ShowTopProducts ==
    /\ run = "dashboard"
    /\ pc = "products"
    /\ \E n \in SliderTopNs :
         /\ top_n' = n
         /\ top_products' = analyze_top_products(filtered_df.rows, n)
    /\ pc' = "customers"
    /\ UNCHANGED <<dashboard, cleaner, error, kpis, category_analysis,
                   region_analysis, time_analysis, demo_analysis,
                   payment_analysis, report>>

\* main lines 218-232
ShowCustomers ==
    /\ run = "dashboard"
    /\ pc = "customers"
    /\ demo_analysis' = analyze_customer_demographics(filtered_df.rows)
    /\ payment_analysis' = analyze_payment_methods(filtered_df.rows)
    /\ pc' = "data"
    /\ UNCHANGED <<dashboard, cleaner, error, kpis, category_analysis,
                   region_analysis, time_analysis, top_n, top_products, report>>

\* main lines 234-241
ShowData ==
    /\ run = "dashboard"
    /\ pc = "data"
    /\ category_analysis' = analyze_by_category(filtered_df.rows)
    /\ region_analysis' = analyze_by_region(filtered_df.rows)
    /\ pc' = "shown"
    /\ UNCHANGED <<dashboard, cleaner, error, kpis, time_analysis, top_n,
                   top_products, demo_analysis, payment_analysis, report>>

DashboardNext ==
    \/ LoadBaseData
    \/ PrepareData
    \/ Copy
    \/ HandleMissing
    \/ RemoveDuplicates
    \/ HandleOutliers
    \/ EnsureTypes
    \/ AddDerived
    \/ BuildFilters
    \/ StopIfEmpty
    \/ ShowKpis
    \/ ShowTrends
    \/ ShowTopProducts
    \/ ShowCustomers
    \/ ShowData

\* main goes on from the call of build_filters (line 171) to the test of line
\* 173: nothing between them waits for anything
DashboardSpec == DashboardInit /\ [][DashboardNext]_vars /\ WF_vars(StopIfEmpty)

-----------------------------------------------------------------------------
(* Positions of the pipeline *)

AnalysisPcs == {"category", "region", "time", "top_products", "demographics",
                "payment", "analysed", "reported", "report_error"}

\* the call of clean_sales_data has returned df_clean
Returned == pc \in {"returned"} \cup AnalysisPcs

\* step 1, 2, 3 of the current call is done
PastMissing == pc \in {"duplicates", "outliers", "types", "derived", "error"} \/ Returned
PastDuplicates == pc \in {"outliers", "types", "derived", "error"} \/ Returned
PastOutliers == pc \in {"types", "derived", "error"} \/ Returned

\* the table of the name is assigned
HasKpis == pc \in AnalysisPcs
HasCategory == pc \in AnalysisPcs \ {"category"}
HasRegion == pc \in AnalysisPcs \ {"category", "region"}
HasTime == pc \in AnalysisPcs \ {"category", "region", "time"}
HasTopProducts == pc \in {"demographics", "payment", "analysed", "reported",
                          "report_error"}
HasDemographics == pc \in {"payment", "analysed", "reported", "report_error"}
HasPayment == pc \in {"analysed", "reported", "report_error"}

Rows(frame) == 1..Len(frame.rows)

HasAmount(r) == ~IsNull(r, "Total_Amount")

-----------------------------------------------------------------------------
(* C1 *)

\* C1: once the duplicates are removed, and whatever number of outliers is then
\* found, the working set and the returned set have as many rows as the input
\* minus the number of duplicates removed
C1_RowCount ==
    PastDuplicates => Len(df_clean.rows) = Len(df.rows) - duplicates

\* a returned set from which a duplicate was removed and in which outliers were capped
C1_Witness ==
    /\ pc = "returned"
    /\ duplicates > 0
    /\ outliers > 0

-----------------------------------------------------------------------------
(* C2 *)

\* the outlier step, seen from the state before it
ClampStep(old, new, b) ==
    /\ Len(new) = Len(old)
    /\ 2 * b.lower = 2 * b.Q1 - 3 * (b.Q3 - b.Q1)
    /\ 2 * b.upper = 2 * b.Q3 + 3 * (b.Q3 - b.Q1)
    /\ \A i \in 1..Len(old) :
         HasAmount(old[i]) =>
           /\ HasAmount(new[i])
           /\ old[i].Total_Amount < b.lower => new[i].Total_Amount = b.lower
           /\ old[i].Total_Amount > b.upper => new[i].Total_Amount = b.upper
           /\ (old[i].Total_Amount >= b.lower /\ old[i].Total_Amount <= b.upper)
                => new[i].Total_Amount = old[i].Total_Amount

\* after the outlier step every amount lies within the bounds
WithinBounds ==
    PastOutliers =>
      \A i \in Rows(df_clean) :
        HasAmount(df_clean.rows[i]) =>
          /\ ~bounds.nan
          /\ df_clean.rows[i].Total_Amount >= bounds.lower
          /\ df_clean.rows[i].Total_Amount <= bounds.upper

\* C2: the outlier step sets every amount below lower to lower, every amount
\* above upper to upper and leaves the amounts in [lower, upper] alone, where
\* lower = Q1 - 1.5 IQR and upper = Q3 + 1.5 IQR; from then on every amount of
\* the working and returned set lies in [lower, upper]
C2_Clamped ==
    /\ [][pc = "outliers" => ClampStep(df_clean.rows, df_clean'.rows, bounds')]_vars
    /\ []WithinBounds

\* a returned set with an amount raised to lower, or lowered to upper, beside
\* an amount strictly inside the bounds
C2_Witness ==
    /\ pc = "returned"
    /\ outliers > 0
    /\ \E i, j \in Rows(df_clean) :
         /\ df_clean.rows[i].Total_Amount = bounds.upper
         /\ df_clean.rows[j].Total_Amount < bounds.upper
         /\ df_clean.rows[j].Total_Amount > bounds.lower

-----------------------------------------------------------------------------
(* C3 *)

\* the rows of the input that are left once the missing age groups are filled
\* and the duplicates are removed, as a set
Distinct(rows) == {fillna(rows[i], "Unknown") : i \in 1..Len(rows)}

\* the k-th smallest amount of a set of rows
OrderStatistic(S, k) ==
    CHOOSE v \in {r.Total_Amount : r \in S} :
        /\ Cardinality({r \in S : r.Total_Amount < v}) < k
        /\ Cardinality({r \in S : r.Total_Amount <= v}) >= k

\* four times the q4/4 quantile of the amounts of S by linear interpolation:
\* with h = (n - 1) * q4 / 4, x[floor h] + (h - floor h) * (x[floor h + 1] - x[floor h])
Quantile4(S, q4) ==
    LET h4 == (Cardinality(S) - 1) * q4
        k == (h4 \div 4) + 1
        w == h4 % 4
    IN  IF w = 0 THEN 4 * OrderStatistic(S, k)
        ELSE (4 - w) * OrderStatistic(S, k) + w * OrderStatistic(S, k + 1)

IsQuantile(Q, S, q4) == 4 * Q = Quantile4(S, q4)

ScenarioCleaned == <<10 * Dollar, 20 * Dollar, 30 * Dollar, (105 * Dollar) \div 2,
                     15 * Dollar>>

\* C3: Q1 and Q3 are the 0.25 and 0.75 quantiles, by linear interpolation, of
\* the amounts of the rows left after duplicate removal; for the revenues
\* [10, 20, 30, 1000, 15] Q1 = 15, Q3 = 30, the upper bound is 52.5, the
\* amounts become [10, 20, 30, 52.5, 15] and their total is 127.5
C3_Quartiles ==
    PastOutliers =>
      LET S == {r \in Distinct(df.rows) : HasAmount(r)}
      IN  /\ S # {} =>
                /\ ~bounds.nan
                /\ IsQuantile(bounds.Q1, S, 1)
                /\ IsQuantile(bounds.Q3, S, 3)
          /\ (call = 1 /\ df.rows = ScenarioInput) =>
                /\ bounds.Q1 = 15 * Dollar
                /\ bounds.Q3 = 30 * Dollar
                /\ 2 * bounds.upper = 105 * Dollar
                /\ Amounts(df_clean.rows) = ScenarioCleaned
                /\ 2 * SumSeq(Amounts(df_clean.rows)) = 255 * Dollar

\* the scenario, cleaned: its fourth amount is 52.5
C3_Witness ==
    /\ pc = "returned"
    /\ call = 1
    /\ df.rows = ScenarioInput
    /\ df_clean.rows[4].Total_Amount = (105 * Dollar) \div 2

-----------------------------------------------------------------------------
(* C4 *)

\* the positions of rows that no earlier position equals
Firsts(rows) == {i \in 1..Len(rows) : \A j \in 1..(i - 1) : rows[j] # rows[i]}

\* out holds exactly the rows of rows at the positions K, in their order
KeptAs(rows, K, out) ==
    /\ Len(out) = Cardinality(K)
    /\ \A i \in K : out[Cardinality({k \in K : k <= i})] = rows[i]

Filled(rows) == [i \in 1..Len(rows) |-> fillna(rows[i], "Unknown")]

\* C4 as claimed: a row is removed exactly when an earlier row of the input
\* equals it in every field; the survivors keep their order, and the count
\* reported is the number of rows removed
C4_AsClaimed ==
    pc = "outliers" =>
      /\ KeptAs(Filled(df.rows), Firsts(df.rows), df_clean.rows)
      /\ duplicates = Len(df.rows) - Cardinality(Firsts(df.rows))

\* C4: a row is removed exactly when an earlier row equals it in every field
\* once the missing age groups are replaced by "Unknown"; of each class of
\* rows equal in that sense the first survives, the survivors keep their
\* order, rows that still differ in a field are all kept, and the count
\* reported is the number of rows removed
C4_FirstOccurrences ==
    pc = "outliers" =>
      /\ KeptAs(Filled(df.rows), Firsts(Filled(df.rows)), df_clean.rows)
      /\ duplicates = Len(df.rows) - Cardinality(Firsts(Filled(df.rows)))
      /\ (Len(df.rows) = 2 /\ df.rows[1] = df.rows[2]) =>
            (Len(df_clean.rows) = 1 /\ duplicates = 1)

\* three rows, the third equal to the first and the second sharing their
\* Order_ID: the first two survive, in order
C4_Witness ==
    /\ pc = "outliers"
    /\ Len(df.rows) = 3
    /\ df.rows[1] = df.rows[3]
    /\ df.rows[1] # df.rows[2]
    /\ df.rows[1].Order_ID = df.rows[2].Order_ID
    /\ df_clean.rows = <<df.rows[1], df.rows[2]>>
    /\ duplicates = 1

-----------------------------------------------------------------------------
(* C5 *)

SameOrder(r, o) ==
    /\ o.Order_ID = r.Order_ID
    /\ o.Customer_ID = r.Customer_ID
    /\ o.Product_Name = r.Product_Name
    /\ o.Category = r.Category
    /\ o.Discount = r.Discount
    /\ o.na \ DerivedCols = r.na \ (DerivedCols \cup {"Customer_Age_Group"})

AgeFilled(r, o) ==
    /\ ~IsNull(o, "Customer_Age_Group")
    /\ o.Customer_Age_Group =
         IF IsNull(r, "Customer_Age_Group") THEN "Unknown" ELSE r.Customer_Age_Group

\* C5: from the missing-value step on no record has a missing age group; right
\* after that step the records whose age group was missing hold "Unknown" and
\* the others their own value, and every returned record is an input record
\* with its age group treated so
C5_AgeGroups ==
    /\ PastMissing =>
         \A i \in Rows(df_clean) : ~IsNull(df_clean.rows[i], "Customer_Age_Group")
    /\ pc = "duplicates" =>
         /\ Len(df_clean.rows) = Len(df.rows)
         /\ \A i \in Rows(df) : AgeFilled(df.rows[i], df_clean.rows[i])
    /\ pc = "returned" =>
         \A i \in Rows(df_clean) : \E j \in Rows(df) :
            /\ SameOrder(df.rows[j], df_clean.rows[i])
            /\ AgeFilled(df.rows[j], df_clean.rows[i])

\* a returned set that holds a record whose age group was missing and one whose
\* age group was given
C5_Witness ==
    /\ pc = "returned"
    /\ \E j \in Rows(df) : IsNull(df.rows[j], "Customer_Age_Group")
    /\ \E i \in Rows(df_clean) : df_clean.rows[i].Customer_Age_Group = "Unknown"
    /\ \E i \in Rows(df_clean) : df_clean.rows[i].Customer_Age_Group = "18-25"

-----------------------------------------------------------------------------
(* C6 *)

MissingRequired(r) == r.na \cap (RawCols \ {"Customer_Age_Group"}) # {}

\* C6 as claimed: when an input row misses a required field other than
\* Customer_Age_Group, clean_sales_data raises and returns no record set
C6_AsClaimed ==
    (\E i \in Rows(df) : MissingRequired(df.rows[i])) => ~Returned

-----------------------------------------------------------------------------
(* C7 *)

NegativeQuantity(r) == ~IsNull(r, "Quantity") /\ r.Quantity < 0

\* C7 as claimed: when an input row has an Order_Date that is no calendar date,
\* or a negative Quantity, clean_sales_data raises and returns no record set
C7_AsClaimed ==
    (\E i \in Rows(df) : ~Parseable(df.rows[i]) \/ NegativeQuantity(df.rows[i]))
       => ~Returned

-----------------------------------------------------------------------------
(* C8 *)

\* no missing value, no two equal rows, no amount outside the frame's own
\* IQR bounds (compared eightfold: 8 lower = 2 (4 Q1) - 3 (4 Q3 - 4 Q1))
AlreadyClean(frame) ==
    LET S == {frame.rows[i] : i \in 1..Len(frame.rows)}
    IN  /\ \A r \in S : r.na \cap frame.columns = {}
        /\ Cardinality(S) = Len(frame.rows)
        /\ \A r \in S :
             /\ 8 * r.Total_Amount >= 2 * Quantile4(S, 1)
                                       - 3 * (Quantile4(S, 3) - Quantile4(S, 1))
             /\ 8 * r.Total_Amount <= 2 * Quantile4(S, 3)
                                       + 3 * (Quantile4(S, 3) - Quantile4(S, 1))

\* C8: called on a cleaned record set without missing value, duplicate row or
\* amount outside its own IQR bounds, clean_sales_data returns the same rows
\* with the same values in every column, the derived ones included, and counts
\* no missing value, no duplicate and no outlier
C8_Idempotent ==
    (call = 2 /\ pc = "returned" /\ AlreadyClean(df)) =>
       /\ df_clean = df
       /\ initial_missing = 0
       /\ duplicates = 0
       /\ outliers = 0

\* the second call has returned a set of several rows, one of which the first
\* call had capped
C8_Witness ==
    /\ call = 2
    /\ pc = "returned"
    /\ AlreadyClean(df)
    /\ Len(df.rows) > 3
    /\ \E i \in Rows(df) : df.rows[i].Total_Amount # df.rows[i].Unit_Price

-----------------------------------------------------------------------------
(* C9 *)

Abs(x) == IF x < 0 THEN 0 - x ELSE x

\* the sum of a share column, as Series.sum() takes it (NaN skipped), in
\* hundredths of a percent
ShareSum(t, col) ==
    SumSeq([i \in 1..Len(t) |-> IF t[i][col].nan THEN 0 ELSE t[i][col].v])

WellFormed(frame) == \A i \in Rows(frame) : ~MissingRequired(frame.rows[i])

\* C9 as claimed (for record sets without a missing required cell): the shares
\* of each of the three tables sum to 100.00 within 0.01
C9_AsClaimed ==
    (pc = "analysed" /\ Len(df_clean.rows) > 0 /\ WellFormed(df)) =>
       /\ Abs(ShareSum(category_analysis, "Revenue_Share") - 10000) <= 1
       /\ Abs(ShareSum(region_analysis, "Revenue_Share") - 10000) <= 1
       /\ Abs(ShareSum(payment_analysis, "Usage") - 10000) <= 1

\* the shares of t are numbers and their sum is within 0.005 per row of 100.00
SharesNear100(t, col) ==
    /\ \A i \in 1..Len(t) : ~t[i][col].nan
    /\ 2 * Abs(ShareSum(t, col) - 10000) <= Len(t)

\* C9: in each of the three tables whose column total (of Total_Revenue, of
\* Order_Count) is positive, the shares sum to 100.00 within 0.005 times the
\* number of rows of the table
C9_SharesSum ==
    /\ SumSeq(Column(category_analysis, "Total_Revenue")) > 0
         => SharesNear100(category_analysis, "Revenue_Share")
    /\ SumSeq(Column(region_analysis, "Total_Revenue")) > 0
         => SharesNear100(region_analysis, "Revenue_Share")
    /\ SumSeq(Column(payment_analysis, "Order_Count")) > 0
         => SharesNear100(payment_analysis, "Usage")

\* six categories of equal revenue: six shares of 16.67 sum to 100.02
C9_Witness ==
    /\ pc = "analysed"
    /\ Len(category_analysis) = 6
    /\ ShareSum(category_analysis, "Revenue_Share") = 10002
    /\ Len(payment_analysis) > 1

-----------------------------------------------------------------------------
(* C10 *)

ProductKey == <<"Product_Name", "Category">>

\* the (Product_Name, Category) groups of the cleaned set that top_products leaves out
LeftOut ==
    {key \in {KeyOf(df_clean.rows[i], ProductKey) :
                i \in {j \in Rows(df_clean) : HasKey(df_clean.rows[j], ProductKey)}} :
        \A k \in 1..Len(top_products) : top_products[k].key # key}

GroupRevenue(key) == agg_sum(Members(df_clean.rows, ProductKey, key), "Total_Amount")

\* C10 as claimed: for every top_n the table has at most top_n rows, and every
\* row of it has at least the revenue of every group left out
C10_AsClaimed ==
    HasTopProducts =>
       /\ Len(top_products) <= top_n
       /\ \A k \in 1..Len(top_products) : \A key \in LeftOut :
             top_products[k].Total_Revenue >= GroupRevenue(key)

\* the same for top_n >= 0 only
C10_NonNegative ==
    (HasTopProducts /\ top_n >= 0) =>
       /\ Len(top_products) <= top_n
       /\ \A k \in 1..Len(top_products) : \A key \in LeftOut :
             top_products[k].Total_Revenue >= GroupRevenue(key)

-----------------------------------------------------------------------------
(* C11 *)

\* the sum of f over the index set I, one index at a time
RECURSIVE TotalOver(_, _)
TotalOver(I, f) ==
    IF I = {} THEN 0
    ELSE LET i == CHOOSE x \in I : TRUE IN f[i] + TotalOver(I \ {i}, f)

\* the sum of a column over the records of a frame that hold a value there
ColumnTotal(frame, col) ==
    TotalOver({i \in Rows(frame) : ~IsNull(frame.rows[i], col)},
              [i \in Rows(frame) |-> frame.rows[i][col]])

\* C11: the KPI set holds as Total_Revenue the sum of Total_Amount over the
\* records of the cleaned set (a record without an amount adds nothing) and as
\* Total_Orders the number of its records
C11_KpiTotals ==
    HasKpis =>
       /\ kpis.Total_Revenue = ColumnTotal(df_clean, "Total_Amount")
       /\ kpis.Total_Orders = Len(df_clean.rows)

\* KPIs of a set of several records in which an outlier was clamped: the
\* revenue is the sum of the clamped amounts and differs from the raw sum
C11_Witness ==
    /\ HasKpis
    /\ outliers > 0
    /\ Len(df_clean.rows) > 1
    /\ kpis.Total_Revenue = ColumnTotal(df_clean, "Total_Amount")
    /\ kpis.Total_Revenue # ColumnTotal(df, "Total_Amount")

-----------------------------------------------------------------------------
(* C12 *)

\* the fraction x is the number n / d (d # 0); x is in lowest terms
IsRatio(x, n, d) ==
    /\ ~x.nan
    /\ x.den > 0
    /\ d % x.den = 0
    /\ x.num * (d \div x.den) = n

\* C12: Discount_Rate is 100 times the summed Discount over the summed
\* Total_Amount when that sum is not zero, and the number 0 when it is zero
C12_DiscountRate ==
    HasKpis =>
       LET discount == ColumnTotal(df_clean, "Discount")
           amount == ColumnTotal(df_clean, "Total_Amount")
       IN  IF amount # 0
           THEN IsRatio(kpis.Discount_Rate, 100 * discount, amount)
           ELSE kpis.Discount_Rate = [nan |-> FALSE, num |-> 0, den |-> 1]

\* KPIs of a set that has records and a summed Total_Amount of 0: the rate is 0
C12_Witness ==
    /\ HasKpis
    /\ Len(df_clean.rows) > 0
    /\ ColumnTotal(df_clean, "Total_Amount") = 0
    /\ kpis.Discount_Rate = [nan |-> FALSE, num |-> 0, den |-> 1]

-----------------------------------------------------------------------------
(* C13 *)

\* descending revenue, and groups of equal revenue in ascending order of key
TiesByKey(t) ==
    \A i, j \in 1..Len(t) :
       i < j =>
          \/ t[i].Total_Revenue > t[j].Total_Revenue
          \/ /\ t[i].Total_Revenue = t[j].Total_Revenue
             /\ KeyCode(t[i].key) < KeyCode(t[j].key)

Descending(t) ==
    \A i, j \in 1..Len(t) : i < j => t[i].Total_Revenue >= t[j].Total_Revenue

Reversed(rows) == [i \in 1..Len(rows) |-> rows[Len(rows) + 1 - i]]

C13_OnEveryBuild ==
    /\ HasCategory =>
          /\ Descending(category_analysis)
          /\ argsort = "insertion" => TiesByKey(category_analysis)
          /\ analyze_by_category(Reversed(df_clean.rows)) = category_analysis
    /\ HasRegion =>
          /\ Descending(region_analysis)
          /\ argsort = "insertion" => TiesByKey(region_analysis)
          /\ analyze_by_region(Reversed(df_clean.rows)) = region_analysis

-----------------------------------------------------------------------------
(* C14 *)

\* C14 as claimed: no aggregation function returns a KPI set or a table for a
\* cleaned record set of zero records (the pipeline never gets past line 57
\* with such a set)
C14_AsClaimed ==
    (Returned /\ Len(df_clean.rows) = 0) => ~HasKpis

\* what the functions return for zero records: zeroed KPIs and empty tables
C14_EmptyResults ==
    (Returned /\ Len(df_clean.rows) = 0) =>
       /\ HasKpis => kpis.Total_Revenue = 0 /\ kpis.Total_Orders = 0
       /\ HasCategory => category_analysis = <<>>
       /\ HasRegion => region_analysis = <<>>
       /\ HasTime => time_analysis = NoTimeAnalysis
       /\ HasTopProducts => top_products = <<>>
       /\ HasDemographics => demo_analysis = <<>>
       /\ HasPayment => payment_analysis = <<>>

-----------------------------------------------------------------------------
(* C15 *)

\* C15 as claimed: analyze_top_products returns no table for a top_n <= 0
C15_AsClaimed ==
    HasTopProducts => top_n > 0

\* what it returns for such a top_n: no row for 0, and for a negative top_n
\* every product group but the last -top_n of the sorted table
C15_Returned ==
    (HasTopProducts /\ top_n <= 0) =>
       LET groups == Len(GroupKeys(df_clean.rows, ProductKey))
       IN  Len(top_products) = IF top_n < 0 /\ groups + top_n > 0
                               THEN groups + top_n ELSE 0

-----------------------------------------------------------------------------
(* C16 *)

ReportCalled == pc \in {"reported", "report_error"}

EmptyTables ==
    {name \in TableNames :
       <<>> = CASE name = "category" -> category_analysis
                [] name = "region" -> region_analysis
                [] name = "monthly" -> time_analysis.monthly
                [] name = "products" -> top_products
                [] name = "demographics" -> demo_analysis
                [] name = "payment" -> payment_analysis}

\* C16: a call of generate_insights_report with an empty table among the six
\* ends in an exception and writes no report; a report is written only when
\* all six tables have rows
C16_EmptyTable ==
    /\ (ReportCalled /\ EmptyTables # {}) =>
          pc = "report_error" /\ error # "none" /\ report = NoReport
    /\ report # NoReport => (pc = "reported" /\ EmptyTables = {})

\* the call has raised with the payment table, the last one the report reads
\* a first row of, being the only empty one
C16_Witness ==
    /\ pc = "report_error"
    /\ EmptyTables = {"payment"}
    /\ report = NoReport

-----------------------------------------------------------------------------
(* C17 *)

\* key is the first key, in the stored order of table t, whose Revenue is the
\* largest (sign 1) or the smallest (sign -1) of the table
FirstExtreme(t, key, sign) ==
    \E i \in 1..Len(t) :
       /\ t[i].key = key
       /\ \A j \in 1..Len(t) : sign * t[j].Revenue <= sign * t[i].Revenue
       /\ \A j \in 1..(i - 1) : sign * t[j].Revenue < sign * t[i].Revenue

\* the stored order of a table of analyze_by_time: ascending (Year, Month)
AscendingKeys(t) ==
    \A i, j \in 1..Len(t) :
       i < j => \/ t[i].key[1] < t[j].key[1]
                \/ t[i].key[1] = t[j].key[1] /\ t[i].key[2] < t[j].key[2]

\* C17: the report names as best month the first key of the monthly table
\* that has the maximum Revenue and as worst month the first key that has the
\* minimum, the table being in ascending (Year, Month) order; for a table of
\* one row the two are the same key
C17_BestWorstMonth ==
    /\ HasTime => AscendingKeys(time_analysis.monthly)
    /\ pc = "reported" =>
          LET monthly == time_analysis.monthly
          IN  /\ FirstExtreme(monthly, report[1].best_month_idx, 1)
              /\ FirstExtreme(monthly, report[1].worst_month_idx, 0 - 1)
              /\ Len(monthly) = 1 =>
                    report[1].best_month_idx = report[1].worst_month_idx

\* a report on a monthly table in which two months share the maximum and two
\* other months share the minimum
C17_Witness ==
    /\ pc = "reported"
    /\ report[1].best_month_idx # report[1].worst_month_idx
    /\ LET monthly == time_analysis.monthly
           best == report[1].best_month_idx
           worst == report[1].worst_month_idx
       IN  /\ \E i, j \in 1..Len(monthly) :
                 /\ monthly[i].key = best /\ monthly[j].key # best
                 /\ monthly[j].Revenue = monthly[i].Revenue
           /\ \E i, j \in 1..Len(monthly) :
                 /\ monthly[i].key = worst /\ monthly[j].key # worst
                 /\ monthly[j].Revenue = monthly[i].Revenue

-----------------------------------------------------------------------------
(* C18 *)

\* name is the key of the first row of table t, and no row of t has a larger
\* Total_Revenue than that row
TopOf(t, name) ==
    /\ t # <<>>
    /\ t[1].key[1] = name
    /\ \A i \in 1..Len(t) : t[1].Total_Revenue >= t[i].Total_Revenue

\* C18: in a report on the tables the analyze_* functions made of one cleaned
\* set, the top category, region, product and age group are the first rows of
\* their tables and no group of the table has a larger Total_Revenue; the
\* revenue printed with each is that of the named group
C18_TopEntities ==
    pc = "reported" =>
       /\ TopOf(category_analysis, report[1].top_category)
       /\ TopOf(region_analysis, report[1].top_region)
       /\ TopOf(top_products, report[1].top_product)
       /\ TopOf(demo_analysis, report[1].top_age_group)
       /\ report[1].top_category_revenue =
             agg_sum(Members(df_clean.rows, <<"Category">>,
                             <<report[1].top_category>>), "Total_Amount")
       /\ report[1].top_region_revenue =
             agg_sum(Members(df_clean.rows, <<"Region">>,
                             <<report[1].top_region>>), "Total_Amount")
       /\ report[1].top_age_revenue =
             agg_sum(Members(df_clean.rows, <<"Customer_Age_Group">>,
                             <<report[1].top_age_group>>), "Total_Amount")

\* a report on tables of several groups each, the first group strictly ahead
C18_Witness ==
    /\ pc = "reported"
    /\ \A t \in {category_analysis, region_analysis, top_products, demo_analysis} :
          Len(t) > 2 /\ t[1].Total_Revenue > t[Len(t)].Total_Revenue

-----------------------------------------------------------------------------
(* C19 *)

\* C19 as claimed: no payment method of the payment table has a larger
\* Usage_% than the one the report names as preferred and most used
C19_AsClaimed ==
    pc = "reported" =>
       \A i, j \in 1..Len(payment_analysis) :
          payment_analysis[i].key[1] = report[1].top_payment =>
             payment_analysis[i].Usage.v >= payment_analysis[j].Usage.v

\* what the report names: the first row of the payment table, which is a
\* method of the largest Total_Revenue, together with that method's Usage_%
C19_TopByRevenue ==
    pc = "reported" =>
       /\ TopOf(payment_analysis, report[1].top_payment)
       /\ report[1].top_payment_usage = payment_analysis[1].Usage

-----------------------------------------------------------------------------
(* C20 *)

\* C20: no step of clean_sales_data changes the record collection the caller
\* passed (df changes only when the caller makes a new call with another
\* argument), and no step after the return of clean_sales_data, whether
\* calculate_kpis, an analyze_* function or the report, changes the cleaned
\* record set
C20_Pure ==
    /\ [][~CleanAgain => df' = df]_vars
    /\ [][(Returned /\ ~CleanAgain) => df_clean' = df_clean]_vars

\* the pipeline has run to the report on an input of which the cleaner filled
\* an age group, removed a duplicate and clamped an outlier; the caller's
\* collection still has the missing age group, the duplicate, the outlier and
\* no derived column
C20_Witness ==
    /\ pc = "reported"
    /\ initial_missing > 0 /\ duplicates > 0 /\ outliers > 0
    /\ df.columns = RawCols
    /\ Len(df.rows) = Len(df_clean.rows) + duplicates
    /\ \E i \in Rows(df) : IsNull(df.rows[i], "Customer_Age_Group")
    /\ \E i \in Rows(df) : AboveUpper(df.rows[i], bounds)
    /\ \A i \in Rows(df_clean) :
          /\ ~IsNull(df_clean.rows[i], "Customer_Age_Group")
          /\ ~AboveUpper(df_clean.rows[i], bounds)

-----------------------------------------------------------------------------
(* C21 *)

\* the derived columns of record r hold what C21 says of them
DerivedAsClaimed(r) ==
    /\ ~IsNull(r, "Revenue_After_Discount")
    /\ r.Revenue_After_Discount = r.Total_Amount - r.Discount
    /\ ~IsNull(r, "Month") /\ r.Month \in 1..12
    /\ ~IsNull(r, "Quarter") /\ r.Quarter \in 1..4
    /\ r.Quarter = ((r.Month - 1) \div 3) + 1
    /\ ~IsNull(r, "Year") /\ ~IsNull(r, "Order_Date")
    /\ r.Year = r.Order_Date.year /\ r.Month = r.Order_Date.month

\* C21 as claimed: every record of the returned set has its derived columns
\* as above, the Total_Amount being the clamped one
C21_AsClaimed ==
    Returned =>
       \A i \in Rows(df_clean) :
          /\ DerivedAsClaimed(df_clean.rows[i])
          /\ ~BelowLower(df_clean.rows[i], bounds)
          /\ ~AboveUpper(df_clean.rows[i], bounds)

\* the same for the records that have an Order_Date, a Total_Amount and a
\* Discount; a record without a date has no Year, Month and Quarter, and one
\* without an amount or a discount has no Revenue_After_Discount
C21_WherePresent ==
    Returned =>
       \A i \in Rows(df_clean) :
          LET r == df_clean.rows[i]
          IN  /\ IF IsNull(r, "Order_Date")
                 THEN {"Year", "Month", "Quarter"} \subseteq r.na
                 ELSE /\ {"Year", "Month", "Quarter"} \cap r.na = {}
                      /\ r.Month \in 1..12 /\ r.Quarter \in 1..4
                      /\ r.Quarter = ((r.Month - 1) \div 3) + 1
                      /\ r.Year = r.Order_Date.year
                      /\ r.Month = r.Order_Date.month
              /\ IF IsNull(r, "Total_Amount") \/ IsNull(r, "Discount")
                 THEN IsNull(r, "Revenue_After_Discount")
                 ELSE /\ ~IsNull(r, "Revenue_After_Discount")
                      /\ r.Revenue_After_Discount = r.Total_Amount - r.Discount
                      /\ ~BelowLower(r, bounds) /\ ~AboveUpper(r, bounds)

-----------------------------------------------------------------------------
(* C22 *)

\* every record of the input has 0 <= Discount <= Total_Amount
DiscountWithinAmount(frame) ==
    \A i \in Rows(frame) :
       LET r == frame.rows[i]
       IN  /\ ~IsNull(r, "Total_Amount") /\ ~IsNull(r, "Discount")
           /\ 0 <= r.Discount /\ r.Discount <= r.Total_Amount

\* C22 as claimed: for such an input no returned record has a negative
\* Revenue_After_Discount
C22_AsClaimed ==
    (pc = "returned" /\ call = 1 /\ DiscountWithinAmount(df)) =>
       \A i \in Rows(df_clean) : df_clean.rows[i].Revenue_After_Discount >= 0

\* what holds instead: a record that was not clamped down keeps a
\* Revenue_After_Discount >= 0, and a clamped one has the upper bound minus
\* its Discount
C22_Unclamped ==
    (pc = "returned" /\ call = 1 /\ DiscountWithinAmount(df)) =>
       \A i \in Rows(df_clean) :
          LET r == df_clean.rows[i]
          IN  \/ r.Revenue_After_Discount >= 0
              \/ /\ outliers > 0
                 /\ r.Total_Amount = bounds.upper
                 /\ r.Revenue_After_Discount = bounds.upper - r.Discount

-----------------------------------------------------------------------------
(* C23 *)

\* C23 as claimed: a second call of clean_sales_data, on the set the first
\* call returned, finds no outlier and changes no Total_Amount
C23_AsClaimed ==
    (call = 2 /\ PastOutliers) =>
       /\ outliers = 0
       /\ \A i \in Rows(df_clean) :
             \E j \in Rows(df) :
                /\ df.rows[j].Order_ID = df_clean.rows[i].Order_ID
                /\ df.rows[j].Total_Amount = df_clean.rows[i].Total_Amount

\* what the second call does: it recomputes the quartiles from the clamped
\* amounts, counts the amounts outside the new bounds and caps them, so it
\* changes nothing exactly when it counts zero outliers
C23_SecondPass ==
    (call = 2 /\ PastOutliers) =>
       /\ bounds = iqr_bounds(drop_duplicates(df.rows))
       /\ outliers = count_outliers(drop_duplicates(df.rows), bounds)
       /\ outliers = 0 <=>
             Amounts(df_clean.rows) = Amounts(drop_duplicates(df.rows))

-----------------------------------------------------------------------------
(* C24 *)

\* the counts of the seven aggregate tables, each summed over its groups
GroupCounts ==
    <<SumSeq(Column(category_analysis, "Order_Count")),
      SumSeq(Column(region_analysis, "Order_Count")),
      SumSeq(Column(demo_analysis, "Total_Orders")),
      SumSeq(Column(payment_analysis, "Order_Count")),
      SumSeq(Column(time_analysis.monthly, "Orders")),
      SumSeq(Column(time_analysis.quarterly, "Orders")),
      SumSeq(Column(time_analysis.yearly, "Orders"))>>

\* C24: the Order_Count of the category table, of the region table and of the
\* payment table, the Total_Orders of the demographics table and the Orders of
\* the monthly, quarterly and yearly tables, each summed over the groups of
\* its table, all equal the number of records of the cleaned set and the KPI
\* Total_Orders
C24_AsClaimed ==
    HasPayment =>
       /\ kpis.Total_Orders = Len(df_clean.rows)
       /\ \A t \in 1..Len(GroupCounts) : GroupCounts[t] = Len(df_clean.rows)

\* for a cleaned set in which no record lacks a required value, every count
\* summed over its table is the number of records and the KPI Total_Orders;
\* in every cleaned set no summed count exceeds the number of records
C24_WhereComplete ==
    HasPayment =>
       /\ kpis.Total_Orders = Len(df_clean.rows)
       /\ \A t \in 1..Len(GroupCounts) : GroupCounts[t] <= Len(df_clean.rows)
       /\ WellFormed(df_clean) =>
             \A t \in 1..Len(GroupCounts) : GroupCounts[t] = Len(df_clean.rows)

-----------------------------------------------------------------------------
(* C25 *)

\* the dashboard run is at or past its first call of an aggregation function
Aggregating ==
    run = "dashboard" /\ pc \in {"kpis", "trends", "products", "customers", "data", "shown"}

\* no aggregation function has assigned its result
NothingAggregated ==
    /\ kpis = NoKpis
    /\ category_analysis = <<>>
    /\ region_analysis = <<>>
    /\ time_analysis = NoTimeAnalysis
    /\ top_products = <<>>
    /\ demo_analysis = <<>>
    /\ payment_analysis = <<>>

FilteredEmpty == run = "dashboard" /\ pc = "filtered" /\ filtered_df.rows = <<>>

\* C25: in the dashboard run, when the filters leave no record the next step
\* shows the warning and stops the run, the stopped run has called no
\* aggregation function and takes no further step, an empty filtered set always
\* leads to the stopped run, and calculate_kpis and the analyze_* functions are
\* only reached with a filtered set that has a record
C25_StopsWhenEmpty ==
    /\ [][FilteredEmpty => (warning' /\ pc' = "stopped")]_vars
    /\ [][pc = "stopped" => FALSE]_vars
    /\ [](pc = "stopped" => (warning /\ NothingAggregated))
    /\ [](Aggregating => filtered_df.rows # <<>>)
    /\ FilteredEmpty ~> (pc = "stopped" /\ warning)

\* a run with a loaded record whose filters left nothing: warned and stopped
C25_Witness ==
    /\ run = "dashboard"
    /\ pc = "stopped"
    /\ warning
    /\ Len(df_clean.rows) > 0
    /\ filtered_df.rows = <<>>

-----------------------------------------------------------------------------
(* C26 *)

\* C26: in the dashboard run every record of the filtered set the aggregation
\* functions are called with has a Customer_Age_Group, and the Total_Orders of
\* the demographics table count every record of the filtered set
C26_AsClaimed ==
    /\ Aggregating =>
          \A i \in Rows(filtered_df) :
             ~IsNull(filtered_df.rows[i], "Customer_Age_Group")
    /\ (run = "dashboard" /\ pc \in {"data", "shown"}) =>
          SumSeq(Column(demo_analysis, "Total_Orders")) = Len(filtered_df.rows)

\* the same for the runs in which prepare_data called clean_sales_data
C26_ThroughCleaner ==
    ~(required_cols \subseteq df.columns) => C26_AsClaimed

====
